---- MODULE Spec2Model ----
(***************************************************************************)
(* Model of the UPDATE statement builder and of the Common Table           *)
(* Expressions builder of squirrel (update.go).                            *)
(*                                                                         *)
(* SQL text is a sequence of tokens.  The placeholder marker "?" is always *)
(* a token of its own, so that the placeholder formatter can scan for it;  *)
(* every other token is a piece of text containing no marker.  An argument *)
(* list is a sequence of integers; the empty sequence is Go's nil slice.   *)
(* An error is a string, "" being Go's nil error.                          *)
(***************************************************************************)
EXTENDS FiniteSets, Integers, Sequences, TLC

VARIABLES builders, last

vars == <<builders, last>>

\* Number of builder values (snapshots) the program holds at once.
MaxBuilders == 3

-----------------------------------------------------------------------------
(* Placeholder formats *)

Question == "Question"
Dollar == "Dollar"
\* A PlaceholderFormat implementation whose ReplacePlaceholders fails.
Unresolved == "Unresolved"

ErrUnresolved == "placeholder format cannot be resolved"
ErrNoTable == "update statements must specify a table"
ErrNoSet == "update statements must have at least one Set clause"
ErrNoCtes == "common table expressions statements must have at least one label and subquery"
ErrNoStatement == "common table expressions must one of the following final statement: (select, insert, replace, update, delete)"
ErrNoColumns == "select statements must have at least one result column"
ErrBadExpr == "expression failed to render"
RunnerNotSet == "cannot run; no Runner set (RunWith)"
RunnerNotQueryRunner == "cannot QueryRow; Runner is not a QueryRower"

\* Scan left to right; a doubled marker is an escaped literal marker and does
\* not count; every other marker becomes prefix + running count (1-based).
RECURSIVE replacePositionalPlaceholders(_, _, _)
replacePositionalPlaceholders(sql, prefix, n) ==
  IF sql = <<>> THEN <<>>
  ELSE IF Head(sql) = "?"
    THEN IF Len(sql) >= 2 /\ sql[2] = "?"
      THEN <<"?">> \o replacePositionalPlaceholders(SubSeq(sql, 3, Len(sql)), prefix, n)
      ELSE <<prefix \o ToString(n + 1)>>
             \o replacePositionalPlaceholders(Tail(sql), prefix, n + 1)
    ELSE <<Head(sql)>> \o replacePositionalPlaceholders(Tail(sql), prefix, n)

\* PlaceholderFormat.ReplacePlaceholders(sql) -> (string, error)
ReplacePlaceholders(f, sql) ==
  CASE f = Question -> [sql |-> sql, err |-> ""]
    [] f = Dollar -> [sql |-> replacePositionalPlaceholders(sql, "$", 0), err |-> ""]
    [] OTHER -> [sql |-> <<>>, err |-> ErrUnresolved]

-----------------------------------------------------------------------------
(* Renderable fragments (Sqlizer values).  One record shape for all kinds:  *)
(*   k     "nil" | "val" | "str" | "expr" | "select" | "insert" | "delete" |        *)
(*         "update" | "alias" | "cte"                                       *)
(*   text  the fragment's own unformatted SQL tokens                        *)
(*   args  its bound arguments                                              *)
(*   pf    the placeholder format of a statement builder                    *)
(*   name  the alias or the CTE name                                        *)
(*   err   the error its render returns ("" when it renders)                *)
(*   data  <<d>> for an UpdateBuilder over the record d, else <<>>          *)
(* "alias" and "cte" wrap a SelectBuilder, whose fields they carry.         *)

Frag(k, text, args, pf, name, err, data) ==
  [k |-> k, text |-> text, args |-> args, pf |-> pf, name |-> name, err |-> err,
   data |-> data]

Nil == Frag("nil", <<>>, <<>>, Question, "", "", <<>>)

\* A SET value that is not a Sqlizer.
Val(v) == Frag("val", <<>>, <<v>>, Question, "", "", <<>>)

\* Expr(sql, args...)
Expr(sql, args) == Frag("expr", sql, args, Question, "", "", <<>>)

\* A Go string handed where `any` is expected (the predicate of Where).
Str(text) == Frag("str", text, <<>>, Question, "", "", <<>>)

\* newPart(pred, args...): the part of a string predicate renders as the
\* string with the arguments.
newPart(pred, args) == Expr(pred, args)

\* newWherePart(pred, args...): a string predicate renders as itself with its
\* arguments, a Sqlizer predicate as that Sqlizer.
newWherePart(pred, args) == IF pred.k = "str" THEN Expr(pred.text, args) ELSE pred

IsSqlizer(v) == v.k # "val"

IsSelectBuilder(v) == v.k = "select"

\* SelectBuilder.PlaceholderFormat(f)
SelectBuilder_PlaceholderFormat(s, f) == [s EXCEPT !.pf = f]

\* Alias(expr, alias)
Alias(expr, alias) == [expr EXCEPT !.k = "alias", !.name = alias]

\* cteExpr{expr, cte}
cteExpr(expr, cte) == [expr EXCEPT !.k = "cte", !.name = cte]

\* The result of a render: (sql, args, err) and the number of calls made of a
\* stored fragment's ToSql.
Rendered(sql, args, err, calls) ==
  [type |-> "rendered", sql |-> sql, args |-> args, err |-> err, calls |-> calls]

Failed(err, calls) == Rendered(<<>>, <<>>, err, calls)

\* The render of a statement builder that is not modelled clause by clause:
\* its text run through its own placeholder format.
StatementToSql(s) ==
  IF s.err # "" THEN Failed(s.err, 0)
  ELSE LET r == ReplacePlaceholders(s.pf, s.text)
       IN IF r.err # "" THEN Failed(r.err, 0) ELSE Rendered(r.sql, s.args, "", 0)

\* strings.Join(elems, sep) over pieces of text
RECURSIVE strings_Join(_, _)
strings_Join(elems, sep) ==
  IF elems = <<>> THEN <<>>
  ELSE IF Len(elems) = 1 THEN elems[1]
  ELSE elems[1] \o <<sep>> \o strings_Join(Tail(elems), sep)

RECURSIVE SqlizerToSql(_)

\* appendToSql(parts, w, sep, args): st holds the buffer w and the argument
\* accumulator.  Renders the parts in order, writes sep between them, appends
\* each part's arguments, and stops at the first part that fails.
RECURSIVE appendToSql(_, _, _)
appendToSql(parts, st, sep) ==
  IF parts = <<>> THEN st
  ELSE LET p == SqlizerToSql(Head(parts))
           n == st.calls + 1 + p.calls
       IN IF p.err # "" THEN [st EXCEPT !.args = <<>>, !.err = p.err, !.calls = n]
          ELSE LET w == [st EXCEPT !.buf = st.buf \o p.sql, !.args = st.args \o p.args,
                                   !.calls = n]
               IN IF Len(parts) = 1 THEN w
                  ELSE appendToSql(Tail(parts), [w EXCEPT !.buf = w.buf \o <<sep>>], sep)

\* sql.WriteString(s)
WriteString(st, s) == [st EXCEPT !.buf = st.buf \o s]

\* The loop over d.SetClauses with a SelectBuilder value written without its
\* parentheses.
RECURSIVE setClausesLoop_NoParentheses(_, _)
setClausesLoop_NoParentheses(clauses, st) ==
  IF clauses = <<>> THEN st
  ELSE LET setClause == Head(clauses)
       IN IF IsSqlizer(setClause.value)
          THEN LET vs == SqlizerToSql(setClause.value)
                   n == st.calls + 1 + vs.calls
               IN IF vs.err # "" THEN [st EXCEPT !.err = vs.err, !.calls = n]
                  ELSE setClausesLoop_NoParentheses(Tail(clauses),
                         [st EXCEPT !.sqls = Append(st.sqls, <<setClause.column, " = ">> \o vs.sql),
                                    !.args = st.args \o vs.args,
                                    !.calls = n])
          ELSE setClausesLoop_NoParentheses(Tail(clauses),
                 [st EXCEPT !.sqls = Append(st.sqls, <<setClause.column, " = ", "?">>),
                            !.args = st.args \o setClause.value.args])

\* The loop over d.SetClauses: st.sqls is setSqls, filled in order.
RECURSIVE setClausesLoop(_, _)
setClausesLoop(clauses, st) ==
  IF clauses = <<>> THEN st
  ELSE LET setClause == Head(clauses)
       IN IF IsSqlizer(setClause.value)
          THEN LET vs == SqlizerToSql(setClause.value)
                   n == st.calls + 1 + vs.calls
                   valSql == IF IsSelectBuilder(setClause.value)
                             THEN <<"(">> \o vs.sql \o <<")">>
                             ELSE vs.sql
               IN IF vs.err # "" THEN [st EXCEPT !.err = vs.err, !.calls = n]
                  ELSE setClausesLoop(Tail(clauses),
                         [st EXCEPT !.sqls = Append(st.sqls, <<setClause.column, " = ">> \o valSql),
                                    !.args = st.args \o vs.args,
                                    !.calls = n])
          ELSE setClausesLoop(Tail(clauses),
                 [st EXCEPT !.sqls = Append(st.sqls, <<setClause.column, " = ", "?">>),
                            !.args = st.args \o setClause.value.args])

\* The buffer, the argument accumulator, the error and the count of fragment
\* renders at the start of a render.
Start == [buf |-> <<>>, args |-> <<>>, err |-> "", calls |-> 0, sqls |-> <<>>]

\* The clauses of updateData.ToSql in the order the code writes them.  Each
\* takes the render so far and passes a failed render on unchanged: the code
\* returns at the first error.

\* if len(d.Prefixes) > 0 { appendToSql(d.Prefixes, sql, " ", args); " " }
updatePrefixes(d, st) ==
  IF st.err # "" \/ Len(d.Prefixes) = 0 THEN st
  ELSE LET a == appendToSql(d.Prefixes, st, " ")
       IN IF a.err # "" THEN a ELSE WriteString(a, <<" ">>)

\* "UPDATE " + d.Table
updateTable(d, st) ==
  IF st.err # "" THEN st ELSE WriteString(st, <<"UPDATE ", d.Table>>)

\* " SET " + strings.Join(setSqls, ", ")
updateSet(d, st) ==
  IF st.err # "" THEN st
  ELSE LET l == setClausesLoop(d.SetClauses, WriteString(st, <<" SET ">>))
       IN IF l.err # "" THEN l ELSE WriteString(l, strings_Join(l.sqls, ", "))

\* if d.From != nil { " FROM " + appendToSql([]Sqlizer{d.From}, sql, "", args) }
updateFrom(d, st) ==
  IF st.err # "" \/ d.From = Nil THEN st
  ELSE appendToSql(<<d.From>>, WriteString(st, <<" FROM ">>), "")

\* if len(d.WhereParts) > 0 { " WHERE " + appendToSql(d.WhereParts, sql, " AND ", args) }
updateWhere(d, st) ==
  IF st.err # "" \/ Len(d.WhereParts) = 0 THEN st
  ELSE appendToSql(d.WhereParts, WriteString(st, <<" WHERE ">>), " AND ")

\* if len(d.OrderBys) > 0 { " ORDER BY " + strings.Join(d.OrderBys, ", ") }
updateOrderBy(d, st) ==
  IF st.err # "" \/ Len(d.OrderBys) = 0 THEN st
  ELSE WriteString(WriteString(st, <<" ORDER BY ">>),
                   strings_Join([i \in DOMAIN d.OrderBys |-> <<d.OrderBys[i]>>], ", "))

\* if len(d.Limit) > 0 { " LIMIT " + d.Limit }
updateLimit(d, st) ==
  IF st.err # "" \/ d.Limit = "" THEN st ELSE WriteString(st, <<" LIMIT ", d.Limit>>)

\* if len(d.Offset) > 0 { " OFFSET " + d.Offset }
updateOffset(d, st) ==
  IF st.err # "" \/ d.Offset = "" THEN st ELSE WriteString(st, <<" OFFSET ", d.Offset>>)

\* if len(d.Suffixes) > 0 { " " + appendToSql(d.Suffixes, sql, " ", args) }
updateSuffixes(d, st) ==
  IF st.err # "" \/ Len(d.Suffixes) = 0 THEN st
  ELSE appendToSql(d.Suffixes, WriteString(st, <<" ">>), " ")

\* sqlStr, err = d.PlaceholderFormat.ReplacePlaceholders(sql.String())
\* return sqlStr, args, err
replaceAndReturn(f, st) ==
  IF st.err # "" THEN Failed(st.err, st.calls)
  ELSE LET r == ReplacePlaceholders(f, st.buf)
       IN Rendered(r.sql, st.args, r.err, st.calls)

\* updateData.ToSql validating only after the prefixes are rendered.
updateData_ToSql_LateValidation(d) ==
  LET p == updatePrefixes(d, Start)
  IN IF p.err # "" THEN Failed(p.err, p.calls)
     ELSE IF d.Table = "" THEN Failed(ErrNoTable, p.calls)
     ELSE IF Len(d.SetClauses) = 0 THEN Failed(ErrNoSet, p.calls)
     ELSE replaceAndReturn(d.PlaceholderFormat,
            updateSuffixes(d, updateOffset(d, updateLimit(d, updateOrderBy(d,
              updateWhere(d, updateFrom(d, updateSet(d, updateTable(d, p)))))))))

\* updateData.ToSql writing WHERE before FROM.
updateData_ToSql_WhereFirst(d) ==
  IF d.Table = "" THEN Failed(ErrNoTable, 0)
  ELSE IF Len(d.SetClauses) = 0 THEN Failed(ErrNoSet, 0)
  ELSE replaceAndReturn(d.PlaceholderFormat,
         updateSuffixes(d, updateOffset(d, updateLimit(d, updateOrderBy(d,
           updateFrom(d, updateWhere(d, updateSet(d, updateTable(d,
             updatePrefixes(d, Start))))))))))

\* func (d *updateData) ToSql() (sqlStr string, args []any, err error)
updateData_ToSql(d) ==
  IF d.Table = "" THEN Failed(ErrNoTable, 0)
  ELSE IF Len(d.SetClauses) = 0 THEN Failed(ErrNoSet, 0)
  ELSE replaceAndReturn(d.PlaceholderFormat,
         updateSuffixes(d, updateOffset(d, updateLimit(d, updateOrderBy(d,
           updateWhere(d, updateFrom(d, updateSet(d, updateTable(d,
             updatePrefixes(d, Start))))))))))

\* Sqlizer.ToSql() of a stored fragment
SqlizerToSql(f) ==
  CASE f.k = "expr" ->
         IF f.err # "" THEN Failed(f.err, 0) ELSE Rendered(f.text, f.args, "", 0)
    [] f.k \in {"select", "insert", "delete"} -> StatementToSql(f)
    [] f.k = "update" -> updateData_ToSql(f.data[1])
    [] f.k = "alias" ->
         LET r == StatementToSql(f)
         IN IF r.err # "" THEN r
            ELSE Rendered(<<"(">> \o r.sql \o <<") AS ", f.name>>, r.args, "", 0)
    [] f.k = "cte" ->
         LET r == StatementToSql(f)
         IN IF r.err # "" THEN r
            ELSE Rendered(<<f.name, " AS (">> \o r.sql \o <<")">>, r.args, "", 0)
    [] OTHER -> Failed(ErrBadExpr, 0)

\* "WITH " with the recursive flag ignored.
cteWith_NeverRecursive(d, st) == WriteString(st, <<"WITH ">>)

\* "WITH " + ("RECURSIVE " if d.Recursive)
cteWith(d, st) ==
  IF d.Recursive THEN WriteString(st, <<"WITH ", "RECURSIVE ">>)
  ELSE WriteString(st, <<"WITH ">>)

\* appendToSql(d.Ctes, sql, ", ", args)
cteCtes(d, st) == appendToSql(d.Ctes, st, ", ")

\* " " + appendToSql([]Sqlizer{d.Statement}, sql, "", args)
cteStatement(d, st) ==
  IF st.err # "" THEN st ELSE appendToSql(<<d.Statement>>, WriteString(st, <<" ">>), "")

\* func (d *commonTableExpressionsData) toSql() (sqlStr string, args []any, err error)
commonTableExpressionsData_toSql(d) ==
  IF Len(d.Ctes) = 0 THEN Failed(ErrNoCtes, 0)
  ELSE IF d.Statement = Nil THEN Failed(ErrNoStatement, 0)
  ELSE replaceAndReturn(d.PlaceholderFormat,
         cteStatement(d, cteCtes(d, cteWith(d, Start))))

\* func (d *commonTableExpressionsData) ToSql()
commonTableExpressionsData_ToSql(d) == commonTableExpressionsData_toSql(d)

-----------------------------------------------------------------------------
(* The immutable builder core (github.com/lann/builder): every operation    *)
(* returns a new builder over a copy of the record with one field changed.  *)

builder_Set(b, name, v) == [b EXCEPT ![name] = v]

builder_Append(b, name, v) == [b EXCEPT ![name] = Append(@, v)]

builder_Extend(b, name, vs) == [b EXCEPT ![name] = @ \o vs]

builder_GetStruct(b) == b

\* setRunWith(b, runner)
setRunWith(b, runner) == builder_Set(b, "RunWith", runner)

\* The value x.(T) of a type assertion, or Panic when x is of another type.
Panic == [type |-> "panic"]

TypeAssert(x, T) == IF x.type = T THEN x ELSE Panic

NoRunner == "nil"

\* type updateData struct, as a builder made by StatementBuilder (whose
\* placeholder format is Question) holds it before any chained call.
updateData ==
  [type |-> "updateData", PlaceholderFormat |-> Question, RunWith |-> NoRunner,
   Prefixes |-> <<>>, Table |-> "", SetClauses |-> <<>>, From |-> Nil,
   WhereParts |-> <<>>, OrderBys |-> <<>>, Limit |-> "", Offset |-> "",
   Suffixes |-> <<>>]

\* type setClause struct
setClause(column, value) == [column |-> column, value |-> value]

\* type commonTableExpressionsData struct, likewise
commonTableExpressionsData ==
  [type |-> "commonTableExpressionsData", PlaceholderFormat |-> Question,
   RunWith |-> NoRunner, Recursive |-> FALSE, CurrentCteName |-> "", Ctes |-> <<>>,
   Statement |-> Nil]

-----------------------------------------------------------------------------
(* UpdateBuilder: the chained methods, from a builder value to a new one *)

UpdateBuilder_PlaceholderFormat(b, f) == builder_Set(b, "PlaceholderFormat", f)

UpdateBuilder_RunWith(b, runner) == setRunWith(b, runner)

UpdateBuilder_PrefixExpr(b, e) == builder_Append(b, "Prefixes", e)

UpdateBuilder_Prefix(b, sql, args) == UpdateBuilder_PrefixExpr(b, Expr(sql, args))

UpdateBuilder_Table(b, table) == builder_Set(b, "Table", table)

UpdateBuilder_Set(b, column, value) ==
  builder_Append(b, "SetClauses", setClause(column, value))

\* The order of Go's string comparison on the column names of the model.
ColumnRank == [a |-> 1, b |-> 2, c |-> 3, d |-> 4]

StringLess(x, y) == ColumnRank[x] < ColumnRank[y]

\* The keys left in the order of the iteration.
sort_Strings_Unsorted(keys) == keys

\* sort.Strings(keys): ascending
RECURSIVE sort_Strings(_)
sort_Strings(keys) ==
  IF keys = <<>> THEN <<>>
  ELSE LET m == CHOOSE i \in DOMAIN keys :
                  \A j \in DOMAIN keys : ~StringLess(keys[j], keys[i])
       IN <<keys[m]>>
            \o sort_Strings([j \in 1..(Len(keys) - 1) |-> IF j < m THEN keys[j] ELSE keys[j + 1]])

\* for _, key := range keys { b = b.Set(key, clauses[key]) }
RECURSIVE setEach(_, _, _)
setEach(b, keys, clauses) ==
  IF keys = <<>> THEN b
  ELSE setEach(UpdateBuilder_Set(b, Head(keys), clauses[Head(keys)]), Tail(keys), clauses)

\* SetMap(clauses): range is the order in which Go iterates over the map.
UpdateBuilder_SetMap(b, clauses, range) == setEach(b, sort_Strings(range), clauses)

UpdateBuilder_From(b, from) == builder_Set(b, "From", newPart(from, <<>>))

UpdateBuilder_FromSelect(b, from, alias) ==
  builder_Set(b, "From", Alias(SelectBuilder_PlaceholderFormat(from, Question), alias))

UpdateBuilder_Where(b, pred, args) ==
  builder_Append(b, "WhereParts", newWherePart(pred, args))

UpdateBuilder_OrderBy(b, orderBys) == builder_Extend(b, "OrderBys", orderBys)

\* fmt.Sprintf("%d", limit)
UpdateBuilder_Limit(b, limit) == builder_Set(b, "Limit", ToString(limit))

UpdateBuilder_Offset(b, offset) == builder_Set(b, "Offset", ToString(offset))

UpdateBuilder_SuffixExpr(b, e) == builder_Append(b, "Suffixes", e)

UpdateBuilder_Suffix(b, sql, args) == UpdateBuilder_SuffixExpr(b, Expr(sql, args))

\* UpdateBuilder.ToSql()
UpdateBuilder_ToSql(b) ==
  LET data == TypeAssert(builder_GetStruct(b), "updateData")
  IN IF data.type = "panic" THEN Panic ELSE updateData_ToSql(data)

\* A statement builder as a Sqlizer
UpdateStatement(b) == Frag("update", <<>>, <<>>, Question, "", "", <<b>>)

-----------------------------------------------------------------------------
(* Running a statement *)

\* The outcome of a call that runs a statement: the error it returns, whether
\* the statement was rendered, and the (sql, args) handed to the runner.
Ran(err, rendered, sql, args) ==
  [type |-> "ran", err |-> err, rendered |-> rendered, sql |-> sql, args |-> args]

\* ExecWith / QueryWith / QueryRowWith(db, s): render s, then run it on db.
ExecWith(db, r) ==
  IF r.err # "" THEN Ran(r.err, TRUE, <<>>, <<>>) ELSE Ran("", TRUE, r.sql, r.args)

\* func (d *updateData) Exec()
updateData_Exec(d) ==
  IF d.RunWith = NoRunner THEN Ran(RunnerNotSet, FALSE, <<>>, <<>>)
  ELSE ExecWith(d.RunWith, updateData_ToSql(d))

\* UpdateBuilder.Exec()
UpdateBuilder_Exec(b) ==
  LET data == TypeAssert(builder_GetStruct(b), "updateData")
  IN IF data.type = "panic" THEN Panic ELSE updateData_Exec(data)

\* func (d *commonTableExpressionsData) Exec()
commonTableExpressionsData_Exec(d) ==
  IF d.RunWith = NoRunner THEN Ran(RunnerNotSet, FALSE, <<>>, <<>>)
  ELSE ExecWith(d.RunWith, commonTableExpressionsData_ToSql(d))

\* func (d *commonTableExpressionsData) Query()
commonTableExpressionsData_Query(d) ==
  IF d.RunWith = NoRunner THEN Ran(RunnerNotSet, FALSE, <<>>, <<>>)
  ELSE ExecWith(d.RunWith, commonTableExpressionsData_ToSql(d))

\* Runners that can QueryRow.
QueryRowers == {"db"}

\* func (d *commonTableExpressionsData) QueryRow(): the row carries the error
commonTableExpressionsData_QueryRow(d) ==
  IF d.RunWith = NoRunner THEN Ran(RunnerNotSet, FALSE, <<>>, <<>>)
  ELSE IF d.RunWith \notin QueryRowers THEN Ran(RunnerNotQueryRunner, FALSE, <<>>, <<>>)
  ELSE ExecWith(d.RunWith, commonTableExpressionsData_ToSql(d))

\* The Exec/Query/QueryRow of selectData, the type the CTE builder's methods
\* assert: the same three shapes over a record of that type.
selectData_Run(d) ==
  IF d.RunWith = NoRunner THEN Ran(RunnerNotSet, FALSE, <<>>, <<>>)
  ELSE ExecWith(d.RunWith, StatementToSql(d))

\* CommonTableExpressionsBuilder.Exec()
CommonTableExpressionsBuilder_Exec(b) ==
  LET data == TypeAssert(builder_GetStruct(b), "selectData")
  IN IF data.type = "panic" THEN Panic ELSE selectData_Run(data)

\* CommonTableExpressionsBuilder.Query()
CommonTableExpressionsBuilder_Query(b) ==
  LET data == TypeAssert(builder_GetStruct(b), "selectData")
  IN IF data.type = "panic" THEN Panic ELSE selectData_Run(data)

\* CommonTableExpressionsBuilder.QueryRow()
CommonTableExpressionsBuilder_QueryRow(b) ==
  LET data == TypeAssert(builder_GetStruct(b), "selectData")
  IN IF data.type = "panic" THEN Panic ELSE selectData_Run(data)

\* CommonTableExpressionsBuilder.Scan(dest...): b.QueryRow().Scan(dest...)
CommonTableExpressionsBuilder_Scan(b) == CommonTableExpressionsBuilder_QueryRow(b)

\* CommonTableExpressionsBuilder.ToSql()
CommonTableExpressionsBuilder_ToSql(b) ==
  LET data == TypeAssert(builder_GetStruct(b), "commonTableExpressionsData")
  IN IF data.type = "panic" THEN Panic ELSE commonTableExpressionsData_ToSql(data)

-----------------------------------------------------------------------------
(* CommonTableExpressionsBuilder: the chained methods *)

CommonTableExpressionsBuilder_PlaceholderFormat(b, f) ==
  builder_Set(b, "PlaceholderFormat", f)

CommonTableExpressionsBuilder_RunWith(b, runner) == setRunWith(b, runner)

CommonTableExpressionsBuilder_Recursive(b, recursive) ==
  builder_Set(b, "Recursive", recursive)

CommonTableExpressionsBuilder_Cte(b, cte) == builder_Set(b, "CurrentCteName", cte)

CommonTableExpressionsBuilder_As(b, as) ==
  LET data == TypeAssert(builder_GetStruct(b), "commonTableExpressionsData")
  IN builder_Append(b, "Ctes", cteExpr(as, data.CurrentCteName))

CommonTableExpressionsBuilder_Select(b, statement) ==
  builder_Set(b, "Statement", statement)

CommonTableExpressionsBuilder_Insert(b, statement) ==
  builder_Set(b, "Statement", statement)

CommonTableExpressionsBuilder_Replace(b, statement) ==
  CommonTableExpressionsBuilder_Insert(b, statement)

CommonTableExpressionsBuilder_Update(b, statement) ==
  builder_Set(b, "Statement", UpdateStatement(statement))

CommonTableExpressionsBuilder_Delete(b, statement) ==
  builder_Set(b, "Statement", statement)

-----------------------------------------------------------------------------
(* The values the calls of the model are made with *)

SelQ == Frag("select", <<"SELECT id FROM t WHERE n = ", "?">>, <<7>>, Question, "", "", <<>>)

SelDollar == Frag("select", <<"SELECT id FROM r WHERE m = ", "?">>, <<8>>, Dollar, "", "", <<>>)

\* A SelectBuilder with no columns: its render fails.
BadSel == Frag("select", <<>>, <<>>, Question, "", ErrNoColumns, <<>>)

\* A Sqlizer whose render fails.
BadExpr == Frag("expr", <<>>, <<>>, Question, "", ErrBadExpr, <<>>)

SelT == Frag("select", <<"SELECT * FROM t WHERE id > ", "?">>, <<9>>, Question, "", "", <<>>)

InsStmt ==
  Frag("insert", <<"INSERT INTO log (n) VALUES (", "?", ")">>, <<3>>, Question, "", "", <<>>)

RepStmt ==
  Frag("insert", <<"REPLACE INTO log (n) VALUES (", "?", ")">>, <<4>>, Question, "", "", <<>>)

DelStmt == Frag("delete", <<"DELETE FROM t WHERE id = ", "?">>, <<5>>, Question, "", "", <<>>)

Formats == {Dollar, Unresolved}

Runners == {"db"}

Tables == {"", "u"}

SetInputs ==
  { <<"a", Val(1)>>, <<"b", Expr(<<"b + ", "?">>, <<2>>)>>, <<"c", SelDollar>>, <<"d", BadExpr>> }

SetMapInputs == { [b |-> Val(2), a |-> Val(1)] }

\* Every order in which the keys of a map can be iterated.
Ranges(clauses) ==
  { r \in [1..Cardinality(DOMAIN clauses) -> DOMAIN clauses] :
      \A i, j \in DOMAIN r : i # j => r[i] # r[j] }

FromSelectInputs == {SelDollar, BadSel}

\* A predicate with one marker and one escaped marker, and a failing Sqlizer.
WhereInputs ==
  { <<Str(<<"x = ", "?", " AND y = '", "?", "?", "'">>), <<6>>>>, <<BadExpr, <<>>>> }

OrderByInputs == { <<"x">>, <<"y DESC", "z">> }

BasicUpdate == UpdateBuilder_Set(UpdateBuilder_Table(updateData, "t"), "a", Val(1))

UpdateStatements == {BasicUpdate, updateData}

AsInputs == {SelQ, SelDollar, BadSel}

CteNames == {"t", "r"}

\* The builders the program starts from: a new builder of either kind, or one
\* made by the chain of calls written here.
FullUpdate ==
  UpdateBuilder_Suffix(
    UpdateBuilder_Offset(
      UpdateBuilder_Limit(
        UpdateBuilder_OrderBy(
          UpdateBuilder_Where(
            UpdateBuilder_From(
              UpdateBuilder_Set(
                UpdateBuilder_Table(
                  UpdateBuilder_Prefix(updateData, <<"/* p ", "?", " */">>, <<10>>), "t"),
                "a", Val(1)),
              <<"u2">>),
            Str(<<"k = ", "?">>), <<11>>),
          <<"w">>),
        5),
      2),
    <<"RETURNING ", "?">>, <<12>>)

BasicCte ==
  CommonTableExpressionsBuilder_Select(
    CommonTableExpressionsBuilder_As(
      CommonTableExpressionsBuilder_Cte(commonTableExpressionsData, "t"), SelQ),
    SelT)

InitialBuilders == {updateData, FullUpdate, commonTableExpressionsData, BasicCte}

-----------------------------------------------------------------------------
(* The state: the builder values the program holds, oldest first, and the  *)
(* last call made with what it returned.                                   *)

\* A chained call that changes the record of its receiver in place.
Derive_InPlace(h, i, b) == Append([h EXCEPT ![i] = b], b)

\* What a chained call leaves: the receiver h[i] as it was, and the new builder.
Derive(h, i, b) == Append(h, b)

\* last after a chained call on builders[i]
Derived(op, i) ==
  [op |-> op, recv |-> i, kind |-> "builder", sql |-> <<>>, args |-> <<>>, err |-> "",
   calls |-> 0, rendered |-> FALSE]

\* last after a call on builders[i] that returned r
Returned(op, i, r) ==
  CASE r.type = "panic" ->
         [op |-> op, recv |-> i, kind |-> "panic", sql |-> <<>>, args |-> <<>>,
          err |-> "", calls |-> 0, rendered |-> FALSE]
    [] r.type = "ran" ->
         [op |-> op, recv |-> i, kind |-> "ran", sql |-> r.sql, args |-> r.args,
          err |-> r.err, calls |-> 0, rendered |-> r.rendered]
    [] OTHER ->
         [op |-> op, recv |-> i, kind |-> "rendered", sql |-> r.sql, args |-> r.args,
          err |-> r.err, calls |-> r.calls, rendered |-> TRUE]

Init ==
  /\ \E b \in InitialBuilders : builders = <<b>>
  /\ last = [op |-> "new", recv |-> 0, kind |-> "builder", sql |-> <<>>, args |-> <<>>,
             err |-> "", calls |-> 0, rendered |-> FALSE]

IsUpdate(i) == builders[i].type = "updateData"

IsCte(i) == builders[i].type = "commonTableExpressionsData"

\* A chained call on builders[i] that leaves the builder b.
Chain(op, i, b) ==
  /\ Len(builders) < MaxBuilders
  /\ builders' = Derive(builders, i, b)
  /\ last' = Derived(op, i)

\* A call on the builder derived last that returns r and no builder.  Every
\* builder held was the last one when it was derived, so every builder is
\* rendered and run.
Call(op, i, r) ==
  /\ i = Len(builders)
  /\ builders' = builders
  /\ last' = Returned(op, i, r)

U_PlaceholderFormat ==
  \E i \in DOMAIN builders :
    /\ IsUpdate(i)
    /\ \E f \in Formats : Chain("PlaceholderFormat", i, UpdateBuilder_PlaceholderFormat(builders[i], f))

U_RunWith ==
  \E i \in DOMAIN builders :
    /\ IsUpdate(i)
    /\ \E r \in Runners : Chain("RunWith", i, UpdateBuilder_RunWith(builders[i], r))

U_Exec ==
  \E i \in DOMAIN builders :
    IsUpdate(i) /\ Call("Exec", i, UpdateBuilder_Exec(builders[i]))

U_ToSql ==
  \E i \in DOMAIN builders :
    IsUpdate(i) /\ Call("ToSql", i, UpdateBuilder_ToSql(builders[i]))

U_Prefix ==
  \E i \in DOMAIN builders :
    /\ IsUpdate(i)
    /\ Chain("Prefix", i, UpdateBuilder_Prefix(builders[i], <<"/* q ", "?", " */">>, <<13>>))

U_PrefixExpr ==
  \E i \in DOMAIN builders :
    IsUpdate(i) /\ Chain("PrefixExpr", i, UpdateBuilder_PrefixExpr(builders[i], BadExpr))

U_Table ==
  \E i \in DOMAIN builders :
    /\ IsUpdate(i)
    /\ \E t \in Tables : Chain("Table", i, UpdateBuilder_Table(builders[i], t))

U_Set ==
  \E i \in DOMAIN builders :
    /\ IsUpdate(i)
    /\ \E s \in SetInputs : Chain("Set", i, UpdateBuilder_Set(builders[i], s[1], s[2]))

U_SetMap ==
  \E i \in DOMAIN builders :
    /\ IsUpdate(i)
    /\ \E m \in SetMapInputs : \E r \in Ranges(m) :
         Chain("SetMap", i, UpdateBuilder_SetMap(builders[i], m, r))

U_From ==
  \E i \in DOMAIN builders :
    IsUpdate(i) /\ Chain("From", i, UpdateBuilder_From(builders[i], <<"u3">>))

U_FromSelect ==
  \E i \in DOMAIN builders :
    /\ IsUpdate(i)
    /\ \E s \in FromSelectInputs :
         Chain("FromSelect", i, UpdateBuilder_FromSelect(builders[i], s, "s"))

U_Where ==
  \E i \in DOMAIN builders :
    /\ IsUpdate(i)
    /\ \E w \in WhereInputs : Chain("Where", i, UpdateBuilder_Where(builders[i], w[1], w[2]))

U_OrderBy ==
  \E i \in DOMAIN builders :
    /\ IsUpdate(i)
    /\ \E o \in OrderByInputs : Chain("OrderBy", i, UpdateBuilder_OrderBy(builders[i], o))

U_Limit ==
  \E i \in DOMAIN builders :
    IsUpdate(i) /\ Chain("Limit", i, UpdateBuilder_Limit(builders[i], 0))

U_Offset ==
  \E i \in DOMAIN builders :
    IsUpdate(i) /\ Chain("Offset", i, UpdateBuilder_Offset(builders[i], 3))

U_Suffix ==
  \E i \in DOMAIN builders :
    /\ IsUpdate(i)
    /\ Chain("Suffix", i, UpdateBuilder_Suffix(builders[i], <<"LOCK ", "?">>, <<14>>))

U_SuffixExpr ==
  \E i \in DOMAIN builders :
    IsUpdate(i) /\ Chain("SuffixExpr", i, UpdateBuilder_SuffixExpr(builders[i], BadExpr))

C_PlaceholderFormat ==
  \E i \in DOMAIN builders :
    /\ IsCte(i)
    /\ \E f \in Formats :
         Chain("PlaceholderFormat", i, CommonTableExpressionsBuilder_PlaceholderFormat(builders[i], f))

C_RunWith ==
  \E i \in DOMAIN builders :
    /\ IsCte(i)
    /\ \E r \in Runners : Chain("RunWith", i, CommonTableExpressionsBuilder_RunWith(builders[i], r))

C_Exec ==
  \E i \in DOMAIN builders :
    IsCte(i) /\ Call("Exec", i, CommonTableExpressionsBuilder_Exec(builders[i]))

C_Query ==
  \E i \in DOMAIN builders :
    IsCte(i) /\ Call("Query", i, CommonTableExpressionsBuilder_Query(builders[i]))

C_QueryRow ==
  \E i \in DOMAIN builders :
    IsCte(i) /\ Call("QueryRow", i, CommonTableExpressionsBuilder_QueryRow(builders[i]))

C_Scan ==
  \E i \in DOMAIN builders :
    IsCte(i) /\ Call("Scan", i, CommonTableExpressionsBuilder_Scan(builders[i]))

C_ToSql ==
  \E i \in DOMAIN builders :
    IsCte(i) /\ Call("ToSql", i, CommonTableExpressionsBuilder_ToSql(builders[i]))

C_Recursive ==
  \E i \in DOMAIN builders :
    /\ IsCte(i)
    /\ \E r \in BOOLEAN :
         Chain("Recursive", i, CommonTableExpressionsBuilder_Recursive(builders[i], r))

C_Cte ==
  \E i \in DOMAIN builders :
    /\ IsCte(i)
    /\ \E n \in CteNames : Chain("Cte", i, CommonTableExpressionsBuilder_Cte(builders[i], n))

C_As ==
  \E i \in DOMAIN builders :
    /\ IsCte(i)
    /\ \E s \in AsInputs : Chain("As", i, CommonTableExpressionsBuilder_As(builders[i], s))

C_Select ==
  \E i \in DOMAIN builders :
    IsCte(i) /\ Chain("Select", i, CommonTableExpressionsBuilder_Select(builders[i], SelT))

C_Insert ==
  \E i \in DOMAIN builders :
    IsCte(i) /\ Chain("Insert", i, CommonTableExpressionsBuilder_Insert(builders[i], InsStmt))

C_Replace ==
  \E i \in DOMAIN builders :
    IsCte(i)
      /\ Chain("Replace", i, CommonTableExpressionsBuilder_Replace(builders[i], RepStmt))

C_Update ==
  \E i \in DOMAIN builders :
    /\ IsCte(i)
    /\ \E u \in UpdateStatements :
         Chain("Update", i, CommonTableExpressionsBuilder_Update(builders[i], u))

C_Delete ==
  \E i \in DOMAIN builders :
    IsCte(i) /\ Chain("Delete", i, CommonTableExpressionsBuilder_Delete(builders[i], DelStmt))

Next ==
  \/ U_PlaceholderFormat
  \/ U_RunWith
  \/ U_Exec
  \/ U_ToSql
  \/ U_Prefix
  \/ U_PrefixExpr
  \/ U_Table
  \/ U_Set
  \/ U_SetMap
  \/ U_From
  \/ U_FromSelect
  \/ U_Where
  \/ U_OrderBy
  \/ U_Limit
  \/ U_Offset
  \/ U_Suffix
  \/ U_SuffixExpr
  \/ C_PlaceholderFormat
  \/ C_RunWith
  \/ C_Exec
  \/ C_Query
  \/ C_QueryRow
  \/ C_Scan
  \/ C_ToSql
  \/ C_Recursive
  \/ C_Cte
  \/ C_As
  \/ C_Select
  \/ C_Insert
  \/ C_Replace
  \/ C_Update
  \/ C_Delete

Spec == Init /\ [][Next]_vars

-----------------------------------------------------------------------------
(* What the properties below are stated with *)

\* The receiver of the last call, and the builder a chained call returned.
Recv == builders[last.recv]

Result == builders[Len(builders)]

\* b.ToSql() of either builder kind
ToSqlOf(b) ==
  IF b.type = "updateData" THEN UpdateBuilder_ToSql(b)
  ELSE CommonTableExpressionsBuilder_ToSql(b)

RenderedUpdate == last.op = "ToSql" /\ last.kind = "rendered" /\ Recv.type = "updateData"

RenderedCte ==
  last.op = "ToSql" /\ last.kind = "rendered" /\ Recv.type = "commonTableExpressionsData"

\* The pieces of text in order, with sep between them.
RECURSIVE Joined(_, _)
Joined(pieces, sep) ==
  IF Len(pieces) = 0 THEN <<>>
  ELSE Joined(SubSeq(pieces, 1, Len(pieces) - 1), sep)
         \o (IF Len(pieces) > 1 THEN <<sep>> ELSE <<>>) \o pieces[Len(pieces)]

\* The lists in order, one after the other.
RECURSIVE Flat(_)
Flat(lists) ==
  IF Len(lists) = 0 THEN <<>>
  ELSE Flat(SubSeq(lists, 1, Len(lists) - 1)) \o lists[Len(lists)]

TextOf(f) == SqlizerToSql(f).sql

ArgsOf(f) == SqlizerToSql(f).args

Texts(fs) == [i \in DOMAIN fs |-> TextOf(fs[i])]

Args(fs) == [i \in DOMAIN fs |-> ArgsOf(fs[i])]

\* One assignment group: `column = ?` for a plain value, the fragment's own
\* text for a fragment, in parentheses for a SelectBuilder.
Group(c) ==
  <<c.column, " = ">>
    \o (CASE c.value.k = "val" -> <<"?">>
          [] c.value.k = "select" -> <<"(">> \o TextOf(c.value) \o <<")">>
          [] OTHER -> TextOf(c.value))

GroupArgs(c) == IF c.value.k = "val" THEN c.value.args ELSE ArgsOf(c.value)

Assignments(d) == Joined([i \in DOMAIN d.SetClauses |-> Group(d.SetClauses[i])], ", ")

AssignmentArgs(d) == Flat([i \in DOMAIN d.SetClauses |-> GroupArgs(d.SetClauses[i])])

\* The numbered markers a text of that length can hold.
Numbered(sql) == { "$" \o ToString(k) : k \in 1..Len(sql) }

\* The text with every numbered marker turned back into the marker "?".
Unnumbered(sql) ==
  [i \in DOMAIN sql |-> IF sql[i] \in Numbered(sql) THEN "?" ELSE sql[i]]

\* The numbered markers of a text, left to right.
RECURSIVE Markers(_, _)
Markers(sql, all) ==
  IF sql = <<>> THEN <<>>
  ELSE (IF Head(sql) \in all THEN <<Head(sql)>> ELSE <<>>) \o Markers(Tail(sql), all)

\* The placeholders of a rendered text, left to right: in pass-through text
\* the markers that are not escaped and the markers a nested statement has
\* numbered, in numbered text the numbered markers.
Placeholders(sql, f) ==
  IF f = Question
  THEN Markers(replacePositionalPlaceholders(sql, "$", 0), Numbered(sql))
  ELSE Markers(sql, Numbered(sql))

\* The place of the first token t of a text (0 when there is none).
First(sql, t) ==
  IF \E i \in DOMAIN sql : sql[i] = t
  THEN CHOOSE i \in DOMAIN sql : sql[i] = t /\ \A j \in 1..(i - 1) : sql[j] # t
  ELSE 0

\* The tokens that can follow the assignments of an UPDATE.
AfterSet == {" FROM ", " WHERE ", " ORDER BY ", " LIMIT ", " OFFSET ", " "}

-----------------------------------------------------------------------------
(* Properties *)

C2_ValidationBeforeRender ==
  /\ RenderedUpdate /\ (Recv.Table = "" \/ Recv.SetClauses = <<>>)
       => /\ last.err = (IF Recv.Table = "" THEN ErrNoTable ELSE ErrNoSet)
          /\ last.sql = <<>> /\ last.args = <<>> /\ last.calls = 0
  /\ RenderedCte /\ (Recv.Ctes = <<>> \/ Recv.Statement = Nil)
       => /\ last.err = (IF Recv.Ctes = <<>> THEN ErrNoCtes ELSE ErrNoStatement)
          /\ last.sql = <<>> /\ last.args = <<>> /\ last.calls = 0

\* C2 witness: an UPDATE record with no table that holds prefixes, SET
\* clauses, WHERE parts and suffixes has been rendered.
C2_Witness ==
  /\ RenderedUpdate /\ Recv.Table = ""
  /\ Recv.Prefixes # <<>> /\ Recv.SetClauses # <<>> /\ Recv.WhereParts # <<>>
  /\ Recv.Suffixes # <<>>
  /\ last.err = ErrNoTable

\* C3: Exec, Query, QueryRow and Scan on a builder with no runner return the
\* RunnerNotSet error as a value, before rendering, and never panic.
C3_RunnerNotSet ==
  last.op \in {"Exec", "Query", "QueryRow", "Scan"} /\ Recv.RunWith = NoRunner
    => last.kind = "ran" /\ last.err = RunnerNotSet /\ ~last.rendered

\* C4: a render returns either (sql, args) with a nil error, or a non-nil
\* error with empty text and no arguments.
C4_AllOrNothing ==
  last.op = "ToSql" /\ last.kind = "rendered"
    => last.err = "" \/ (last.sql = <<>> /\ last.args = <<>>)

C6_SetMapSorted ==
  last.op = "SetMap"
    => LET old == Recv.SetClauses
           new == Result.SetClauses
       IN /\ \E m \in SetMapInputs :
               /\ Len(new) = Len(old) + Cardinality(DOMAIN m)
               /\ SubSeq(new, 1, Len(old)) = old
               /\ \A j \in (Len(old) + 1)..Len(new) :
                    /\ new[j].column \in DOMAIN m
                    /\ new[j].value = m[new[j].column]
                    /\ j < Len(new) => StringLess(new[j].column, new[j + 1].column)
          /\ Recv = UpdateBuilder_Table(updateData, "u")
               => /\ ToSqlOf(Result).sql
                       = <<"UPDATE ", "u", " SET ", "a", " = ", "?", ", ", "b", " = ", "?">>
                  /\ ToSqlOf(Result).args = <<1, 2>>

\* C6 witness: SetMap was called on a builder that already had SET clauses.
C6_Witness == last.op = "SetMap" /\ Recv.SetClauses # <<>> /\ Recv.Table # ""

\* The text of a CTE entry: `name AS (<statement text>)`.
Entry(e) == <<e.name, " AS (">> \o StatementToSql(e).sql \o <<")">>

\* C7: a rendered CTE builder is `WITH `, `RECURSIVE ` when the flag is set,
\* the entries in the order they were defined joined by `, `, one space and
\* the terminal statement, run through the placeholder format; the arguments
\* of the entries, in order, precede those of the terminal statement.
C7_CteLayout ==
  RenderedCte /\ last.err = ""
    => LET d == Recv
           raw == <<"WITH ">> \o (IF d.Recursive THEN <<"RECURSIVE ">> ELSE <<>>)
                    \o Joined([i \in DOMAIN d.Ctes |-> Entry(d.Ctes[i])], ", ")
                    \o <<" ">> \o TextOf(d.Statement)
       IN /\ last.sql = ReplacePlaceholders(d.PlaceholderFormat, raw).sql
          /\ last.args
               = Flat([i \in DOMAIN d.Ctes |-> StatementToSql(d.Ctes[i]).args])
                   \o ArgsOf(d.Statement)

\* C7 witness: a recursive CTE builder with two entries has been rendered.
C7_Witness ==
  RenderedCte /\ last.err = "" /\ Recv.Recursive /\ Len(Recv.Ctes) >= 2

\* C8: right after an As call the pending name is empty.
C8_PendingNameCleared == last.op = "As" => Result.CurrentCteName = ""

\* The terminal statement keeps the markers of its text for the outer pass.
PassThrough(f) ==
  IF f.k = "update" THEN f.data[1].PlaceholderFormat = Question ELSE f.pf = Question

\* C9: with a numbered format on the CTE builder, and a terminal statement
\* that leaves its markers alone, the rendered text carries the markers
\* 1..n once each, left to right, n the number of arguments.
C9_NumberedOnce ==
  RenderedCte /\ last.err = "" /\ Recv.PlaceholderFormat = Dollar /\ PassThrough(Recv.Statement)
    => Markers(last.sql, Numbered(last.sql))
         = [k \in 1..Len(last.args) |-> "$" \o ToString(k)]

\* The clauses of an UPDATE in their fixed order, each present exactly
\* when it was set.
Layout(d) ==
  (IF d.Prefixes = <<>> THEN <<>> ELSE Joined(Texts(d.Prefixes), " ") \o <<" ">>)
    \o <<"UPDATE ", d.Table, " SET ">> \o Assignments(d)
    \o (IF d.From = Nil THEN <<>> ELSE <<" FROM ">> \o TextOf(d.From))
    \o (IF d.WhereParts = <<>> THEN <<>>
        ELSE <<" WHERE ">> \o Joined(Texts(d.WhereParts), " AND "))
    \o (IF d.OrderBys = <<>> THEN <<>>
        ELSE <<" ORDER BY ">> \o Joined([i \in DOMAIN d.OrderBys |-> <<d.OrderBys[i]>>], ", "))
    \o (IF d.Limit = "" THEN <<>> ELSE <<" LIMIT ", d.Limit>>)
    \o (IF d.Offset = "" THEN <<>> ELSE <<" OFFSET ", d.Offset>>)
    \o (IF d.Suffixes = <<>> THEN <<>> ELSE <<" ">> \o Joined(Texts(d.Suffixes), " "))

LayoutArgs(d) ==
  Flat(Args(d.Prefixes)) \o AssignmentArgs(d)
    \o (IF d.From = Nil THEN <<>> ELSE ArgsOf(d.From))
    \o Flat(Args(d.WhereParts)) \o Flat(Args(d.Suffixes))

\* C10: a rendered UPDATE lays its clauses out in the fixed order, whatever
\* the order of the calls that set them, and its arguments follow that order.
C10_ClauseOrder ==
  RenderedUpdate /\ last.err = ""
    => /\ last.sql = ReplacePlaceholders(Recv.PlaceholderFormat, Layout(Recv)).sql
       /\ last.args = LayoutArgs(Recv)

\* C10 witness: an UPDATE with every clause, whose ORDER BY was extended
\* after the suffix was added, has been rendered.
C10_Witness ==
  /\ RenderedUpdate /\ last.err = ""
  /\ Recv.Prefixes # <<>> /\ Recv.From # Nil /\ Recv.WhereParts # <<>>
  /\ Len(Recv.OrderBys) >= 2 /\ Recv.Limit # "" /\ Recv.Offset # ""
  /\ Recv.Suffixes # <<>>
  /\ Recv.OrderBys[1] = "w"

====
